---- MODULE Spec2Model ----
(***************************************************************************)
(* Model of the verification matcher of the campus access control system   *)
(* (campus-access-control/access_control_system.py, class                  *)
(* AccessControlSystem): the pending one-sided observations, the expiry    *)
(* sweep, the match policy and the access log.                             *)
(*                                                                         *)
(* Time is the wall clock in whole seconds since the system was built.     *)
(* Python dicts are records; a key the dict does not hold is a field the   *)
(* record does not have (Get models dict.get).  Python's None, where a     *)
(* dict is expected, is the record None.                                   *)
(***************************************************************************)
EXTENDS Integers, Sequences, FiniteSets, TLC

VARIABLES
    now,                         \* datetime.now(), in seconds
    REQUIRE_BOTH_VERIFICATIONS,  \* config flag, fixed for a run
    SEND_ALERTS,                 \* config flag, fixed for a run
    pending_verifications,       \* insertion-ordered dict: sequence of [key, value]
    access_log,                  \* self.access_log
    log_file,                    \* records written to access_log_<date>.json
    alert_file,                  \* alerts appended to alerts_<date>.txt
    stats,                       \* self.stats
    disk_ok,                     \* whether files under ACCESS_LOG_DIR can be opened
    session_report,              \* the report written when the run ends, or None
    calls,                       \* number of calls made on the system so far
    last,                        \* the most recent call: its arguments and what it did
    last_save_time,              \* OfflineIDCardRecognizer.last_save_time
    saved_cards,                 \* the card data files save_card_data has written
    video_pc,                    \* where the plate extraction is: "reading" or "done"
    count,                       \* frames read from the video
    startTime,                   \* start of the current 20-second interval
    license_plates,              \* the set of labels of the current interval
    json_files,                  \* the files json/output_<...>.json, by name
    json_data,                   \* the list in json/LicensePlateData.json
    db_rows,                     \* the rows of the table LicensePlates
    plates_added,                \* every license_plates.add so far: label and interval
    students,                    \* the rows of the table students
    requests                     \* the create_student requests being served

\* the state of the programs beside the access control system
extVars == <<last_save_time, saved_cards, video_pc, count, startTime, license_plates,
             json_files, json_data, db_rows, plates_added, students, requests>>

vars == <<now, REQUIRE_BOTH_VERIFICATIONS, SEND_ALERTS, pending_verifications,
          access_log, log_file, alert_file, stats, disk_ok, session_report, calls, last,
          extVars>>

----------------------------------------------------------------------------
(* Program constants *)

ACCESS_TIME_WINDOW == 30
SaveIntervalSeconds == 20     \* process_all_videos.py and main.py: 'Save every 20 seconds'
ID_CARD_SAVE_COOLDOWN == 3    \* offline_id_card_recognizer.py, in seconds

\* timedelta.seconds is the seconds component of a timedelta, 0 <= seconds < 86400;
\* whole days are held in timedelta.days
SecondsPerDay == 86400

(* Bounds of the exploration *)

MaxRequests == 2     \* create_student requests served at the same time
MaxFrames == 3       \* frames read from one video
MaxSaveClock == 8    \* save_card_data is explored over this many seconds
MaxCalls == 3        \* calls made on the system in one run
MaxOffset == 31      \* the clock is explored up to this many seconds into a day
MaxDays == 1         \* and over this many whole days after the start

Steps == {10, 21}    \* seconds the clock advances between two calls

Plates == {"MH12AB1234", "KA01CD5678"}
MoodleIds == {"20230001", "20230002"}

----------------------------------------------------------------------------
(* Python values *)

None == [NoneType |-> TRUE]

Has(d, k) == k \in DOMAIN d

\* d.get(k, default) on a dict d
Get(d, k, default) == IF k \in DOMAIN d THEN d[k] ELSE default

\* truth value of a dict-or-None: None and the empty dict are false
Truthy(d) == d # None /\ DOMAIN d # {}

NameOf(m) == IF m = "20230001" THEN "JOHN SMITH" ELSE "JANE DOE"

\* observations the detection layer can hand over
ValidVehicles == {[plate_text |-> p, is_valid |-> TRUE] : p \in Plates}
ValidIdCards == {[moodle_id |-> m, name |-> NameOf(m), is_valid |-> TRUE] : m \in MoodleIds}

VehicleInputs ==
    ValidVehicles \cup
    {None, [plate_text |-> "MH12AB1234", is_valid |-> FALSE], [plate_text |-> "MH12AB1234"]}

IdCardInputs ==
    ValidIdCards \cup
    {None, [moodle_id |-> "20230001", name |-> "JOHN SMITH", is_valid |-> FALSE],
     [moodle_id |-> "20230001", name |-> "JOHN SMITH"]}

\* (current_time - pending_time).seconds, for current_time >= pending_time
TdSeconds(delta) == delta % SecondsPerDay

----------------------------------------------------------------------------
(* The mutable fields of the system, threaded through the methods *)

Self == [pending_verifications |-> pending_verifications,
         access_log |-> access_log,
         log_file |-> log_file,
         alert_file |-> alert_file,
         stats |-> stats,
         exc |-> FALSE]          \* set once an exception is on its way to the caller

Keys(pv) == {pv[i].key : i \in 1..Len(pv)}

\* a read of the entry that leaves it in the dict
DictPop_Keep(pv, k) == pv

\* dict.pop(key)
DictPop(pv, k) == SelectSeq(pv, LAMBDA e : e.key # k)

\* dict[key] = value: a new key goes last, an existing key keeps its place
DictSet(pv, k, v) ==
    IF k \in Keys(pv)
    THEN [i \in 1..Len(pv) |-> IF pv[i].key = k THEN [key |-> k, value |-> v] ELSE pv[i]]
    ELSE Append(pv, [key |-> k, value |-> v])

\* an assignment of a one-record list in place of the append
ListAppend_Replace(l, x) == <<x>>

\* list.append(x)
ListAppend(l, x) == Append(l, x)

send_alert(s, access_record) ==
    [s EXCEPT !.alert_file =
        Append(@, [timestamp |-> access_record.timestamp,
                   id_card |-> Get(access_record, "id_card", None),
                   vehicle |-> Get(access_record, "vehicle", None),
                   reason |-> Get(access_record, "reason", "Verification failed")])]

\* an alert for every record, whatever its decision
ShouldAlert_Always(access_record) == SEND_ALERTS

\* SEND_ALERTS and access_record['access_decision'] == 'denied'
ShouldAlert(access_record) == SEND_ALERTS /\ access_record.access_decision = "denied"

\* a save that takes the record back out of access_log when the file cannot be opened
save_access_log_Rollback(s, access_record) ==
    LET s2 == [s EXCEPT !.access_log = Append(@, access_record),
                        !.log_file = Append(@, access_record)]
    IN  IF ~disk_ok
        THEN [s EXCEPT !.exc = TRUE]
        ELSE IF SEND_ALERTS /\ access_record.access_decision = "denied"
             THEN send_alert(s2, access_record)
             ELSE s2

\* the record is appended to access_log first; open() on the log file then raises
\* when the disk fails, before anything is written and before any alert
save_access_log(s, access_record) ==
    LET s1 == [s EXCEPT !.access_log = ListAppend(@, access_record)]
        s2 == [s1 EXCEPT !.log_file = Append(@, access_record)]
    IN  IF ~disk_ok
        THEN [s1 EXCEPT !.exc = TRUE]
        ELSE IF ShouldAlert(access_record)
             THEN send_alert(s2, access_record)
             ELSE s2

\* the both-required test with 'or' in place of 'and'
BothValid_Or(vehicle_valid, id_card_valid) == vehicle_valid \/ id_card_valid

\* vehicle_valid and id_card_valid
BothValid(vehicle_valid, id_card_valid) == vehicle_valid /\ id_card_valid

\* the either-sufficient test with 'and' in place of 'or'
EitherValid_And(vehicle_valid, id_card_valid) == vehicle_valid /\ id_card_valid

\* vehicle_valid or id_card_valid
EitherValid(vehicle_valid, id_card_valid) == vehicle_valid \/ id_card_valid

match_vehicle_and_id(s, vehicle_data, id_card_data, timestamp) ==
    LET vehicle_valid == Truthy(vehicle_data) /\ Get(vehicle_data, "is_valid", FALSE)
        id_card_valid == Truthy(id_card_data) /\ Get(id_card_data, "is_valid", FALSE)
        base == [timestamp |-> timestamp, vehicle |-> vehicle_data, id_card |-> id_card_data]
        st == s.stats
        bump(t) == [t EXCEPT !.total_attempts = @ + 1]
    IN  IF REQUIRE_BOTH_VERIFICATIONS
        THEN IF BothValid(vehicle_valid, id_card_valid)
             THEN [result |-> base @@ [match_status |-> "matched", access_decision |-> "granted"],
                   self |-> [s EXCEPT !.stats =
                                bump([st EXCEPT !.both_verified = @ + 1,
                                                !.access_granted = @ + 1])]]
             ELSE [result |-> base @@ [match_status |-> "incomplete",
                                       access_decision |-> "denied",
                                       reason |-> "Both vehicle and ID card required"],
                   self |-> [s EXCEPT !.stats = bump([st EXCEPT !.access_denied = @ + 1])]]
        ELSE IF EitherValid(vehicle_valid, id_card_valid)
             THEN [result |-> base @@ [match_status |-> "partial", access_decision |-> "granted"],
                   self |-> [s EXCEPT !.stats =
                                bump([st EXCEPT
                                    !.access_granted = @ + 1,
                                    !.vehicle_only =
                                        IF vehicle_valid /\ ~id_card_valid THEN @ + 1 ELSE @,
                                    !.id_card_only =
                                        IF id_card_valid /\ ~vehicle_valid THEN @ + 1 ELSE @])]]
             ELSE [result |-> base @@ [match_status |-> "failed",
                                       access_decision |-> "denied",
                                       reason |-> "No valid identification"],
                   self |-> [s EXCEPT !.stats = bump([st EXCEPT !.access_denied = @ + 1])]]

\* the record an expired pending entry is logged as
ExpiredRecord(pending) ==
    [timestamp |-> pending.timestamp, vehicle |-> pending.vehicle, id_card |-> pending.id_card,
     access_decision |-> "denied", reason |-> "Verification timeout"]

\* the empty dict {}
EmptyDict == <<>>

\* (current_time - pending_time).seconds > ACCESS_TIME_WINDOW
IsExpired_OffByOne(pending, current_time) ==
    TdSeconds(current_time - pending.timestamp) > ACCESS_TIME_WINDOW + 1

IsExpired(pending, current_time) ==
    TdSeconds(current_time - pending.timestamp) > ACCESS_TIME_WINDOW

\* pending.get('id_card', {}).get('moodle_id') == moodle_id, for an id_card that is a dict
MatchesMoodleId(pending, moodle_id) ==
    LET d == Get(pending, "id_card", EmptyDict)
    IN  Has(d, "moodle_id") /\ d["moodle_id"] = moodle_id

\* a comparison that reads the key 'plate', which no observation holds
MatchesPlate_WrongKey(pending, plate_number) ==
    LET d == Get(pending, "vehicle", EmptyDict)
    IN  Has(d, "plate") /\ d["plate"] = plate_number

\* pending.get('vehicle', {}).get('plate_text') == plate_number, for a vehicle that is a dict
MatchesPlate(pending, plate_number) ==
    LET d == Get(pending, "vehicle", EmptyDict)
    IN  Has(d, "plate_text") /\ d["plate_text"] = plate_number

\* the body of the loop of check_pending_verification, from item i of the snapshot
\* list(self.pending_verifications.items()) on.  kwargs holds the keyword arguments
\* that were passed (moodle_id or plate_number); the other one is None.
\* Returns the fields of the system, the entry returned (or None) and whether
\* AttributeError was raised: pending.get('id_card', {}) is None for an entry that
\* holds 'id_card': None, and None has no attribute get (likewise for 'vehicle').
RECURSIVE PendingLoop(_, _, _, _, _)
PendingLoop(s, items, i, kwargs, current_time) ==
    IF i > Len(items)
    THEN [self |-> s, ret |-> None, raised |-> FALSE]
    ELSE
        LET key == items[i].key
            pending == items[i].value
        IN  IF IsExpired(pending, current_time)
            THEN LET saved == save_access_log(
                                [s EXCEPT !.pending_verifications = DictPop(@, key)],
                                ExpiredRecord(pending))
                 IN  IF saved.exc
                     THEN [self |-> saved, ret |-> None, raised |-> TRUE]
                     ELSE PendingLoop(saved, items, i + 1, kwargs, current_time)
            ELSE IF Has(kwargs, "moodle_id") /\ Get(pending, "id_card", EmptyDict) = None
            THEN [self |-> s, ret |-> None, raised |-> TRUE]
            ELSE IF Has(kwargs, "moodle_id") /\ MatchesMoodleId(pending, kwargs.moodle_id)
            THEN [self |-> [s EXCEPT !.pending_verifications = DictPop(@, key)],
                  ret |-> pending, raised |-> FALSE]
            ELSE IF Has(kwargs, "plate_number") /\ Get(pending, "vehicle", EmptyDict) = None
            THEN [self |-> s, ret |-> None, raised |-> TRUE]
            ELSE IF Has(kwargs, "plate_number") /\ MatchesPlate(pending, kwargs.plate_number)
            THEN [self |-> [s EXCEPT !.pending_verifications = DictPop(@, key)],
                  ret |-> pending, raised |-> FALSE]
            ELSE PendingLoop(s, items, i + 1, kwargs, current_time)

check_pending_verification(s, kwargs, current_time) ==
    PendingLoop(s, s.pending_verifications, 1, kwargs, current_time)

----------------------------------------------------------------------------
(***************************************************************************)
(* The field extraction of BatchIDCardProcessor.process_single_image       *)
(* (campus-access-control/batch_process_id_cards.py).  A Python str is the *)
(* record [str |-> <<characters>>].  The OCR texts explored are upper case *)
(* and stripped, so text.strip(), text.upper() are the identity on them    *)
(* and text.lower() is compared against the keywords written in upper case.*)
(***************************************************************************)

MaxFragments == 3    \* OCR fragments returned for one image

Str(chars) == [str |-> chars]

OcrTexts ==
    {Str(<<"A", "N", "I", "T", "A", " ", "R", "A", "O">>),
     Str(<<"J", "O", "H", "N", " ", "S", "M", "I", "T", "H", " ", "K", "U", "M", "A", "R">>),
     Str(<<"C", "O", "M", "P", "U", "T", "E", "R", " ", "E", "N", "G", "I", "N", "E", "E", "R", "I", "N", "G">>),
     Str(<<"2", "0", "2", "3", "0", "0", "0", "1">>)}

OcrConfidences == {80, 90}    \* in percent

Letters ==
    {"A", "B", "C", "D", "E", "F", "G", "H", "I", "J", "K", "L", "M",
     "N", "O", "P", "Q", "R", "S", "T", "U", "V", "W", "X", "Y", "Z"}
Digits == {"0", "1", "2", "3", "4", "5", "6", "7", "8", "9"}
Vowels == {"A", "E", "I", "O", "U"}

unwanted_keywords ==
    <<
      <<"P", "A", "R", "S", "H", "V", "A", "N", "A", "L", "H">>, <<"C", "H", "A", "R", "I", "T", "A", "B", "L", "E">>, <<"T", "R", "U", "S", "T">>,
      <<"S", "H", "A", "H">>, <<"I", "N", "S", "T", "I", "T", "U", "T", "E">>, <<"T", "E", "C", "H", "N", "O", "L", "O", "G", "Y">>,
      <<"T", "H", "A", "N", "E">>, <<"A", "C", "A", "D", "E", "M", "I", "C">>, <<"Y", "E", "A", "R">>,
      <<"2", "0", "2", "5">>, <<"2", "0", "2", "6">>, <<"P", "R", "I", "N", "C", "I", "P", "A", "L">>,
      <<"P", "H", "O", "T", "O">>, <<"I", "D", " ", "N", "O">>, <<"S", "I", "G", "N", "A", "T", "U", "R", "E">>,
      <<":">>, <<"A", ".", "P", ".">>
    >>

invalid_name_patterns ==
    <<
      <<"A", "P", "S", "I", "T">>, <<"E", "N", "G", "I", "N", "E", "E", "R", "I", "N", "G">>, <<"C", "O", "M", "P">>,
      <<"E", "N", "G", "I", "N", "E", "E", "R">>, <<"T", "E", "C", "H", "N", "O", "L", "O", "G", "Y">>, <<"I", "N", "S", "T", "I", "T", "U", "T", "E">>,
      <<"D", "E", "P", "A", "R", "T", "M", "E", "N", "T">>, <<"M", "E", "C", "H">>, <<"C", "I", "V", "I", "L">>,
      <<"E", "L", "E", "C", "T">>, <<"P", "R", "I", "N", "C", "I", "P", "A", "L">>, <<"C", "H", "A", "R", "I", "T", "A", "B", "L", "E">>,
      <<"T", "R", "U", "S", "T">>, <<"A", "D", "D", "R", "E", "S", "S">>, <<"A", "D", "D", "R", "O", "S", "S">>
    >>

department_keywords ==
    <<
      <<"C", "O", "M", "P", "U", "T", "E", "R">>, <<"M", "E", "C", "H", "A", "N", "I", "C", "A", "L">>, <<"C", "I", "V", "I", "L">>,
      <<"E", "L", "E", "C", "T", "R", "I", "C", "A", "L">>, <<"E", "L", "E", "C", "T", "R", "O", "N", "I", "C", "S">>, <<"I", "N", "F", "O", "R", "M", "A", "T", "I", "O", "N">>,
      <<"E", "N", "G", "I", "N", "E", "E", "R", "I", "N", "G">>
    >>

\* keyword in text
Contains(text, keyword) ==
    \E i \in 1..(Len(text) - Len(keyword) + 1) :
        SubSeq(text, i, i + Len(keyword) - 1) = keyword

ContainsAny(text, keywords) ==
    \E k \in 1..Len(keywords) : Contains(text, keywords[k])

AllIn(text, charset) == \A i \in 1..Len(text) : text[i] \in charset

is_unwanted_text(text) ==
    \/ Len(text) < 2
    \/ ContainsAny(text, unwanted_keywords)
    \/ (Len(text) <= 2 /\ (AllIn(text, Digits) \/ AllIn(text, Letters)))

is_department(text) ==
    /\ \/ Contains(text, <<"E", "N", "G", "I", "N", "E", "E", "R", "I", "N", "G">>)
       \/ Contains(text, <<"E", "N", "G", "I", "N", "E", "E", "R">>)
       \/ Contains(text, <<"E", "N", "G", "I", "N">>)
    /\ ContainsAny(text, department_keywords)

\* re.findall(r'\b2\d{7}\b', text)[0], or None
extract_moodle_id(text) ==
    LET WordChar(c) == c \in Letters \cup Digits \cup {"_"}
        Hit(i) == /\ text[i] = "2"
                  /\ AllIn(SubSeq(text, i, i + 7), Digits)
                  /\ (i = 1 \/ ~WordChar(text[i - 1]))
                  /\ (i + 7 = Len(text) \/ ~WordChar(text[i + 8]))
        hits == {i \in 1..(Len(text) - 7) : Hit(i)}
    IN  IF hits = {} THEN None
        ELSE Str(SubSeq(text, CHOOSE i \in hits : \A j \in hits : i <= j,
                        7 + CHOOSE i \in hits : \A j \in hits : i <= j))

is_likely_name(text) ==
    LET vowel_count == Cardinality({i \in 1..Len(text) : text[i] \in Vowels})
        one_word == \A i \in 1..Len(text) : text[i] # " "
    IN  /\ AllIn(text, Letters \cup {" "})
        /\ ~(Len(text) < 6 \/ Len(text) > 30)
        /\ ~is_unwanted_text(text)
        /\ ~is_department(text)
        /\ ~ContainsAny(text, invalid_name_patterns)
        /\ ~(one_word /\ Len(text) < 8)
        /\ ~(Len(text) > 0 /\ 5 * vowel_count < Len(text))

\* valid_departments, in the order of the dict
valid_departments ==
    <<
      [key |-> <<"C", "O", "M", "P", "U", "T", "E", "R">>, value |-> Str(<<"C", "O", "M", "P", "U", "T", "E", "R", " ", "E", "N", "G", "I", "N", "E", "E", "R", "I", "N", "G">>)],
      [key |-> <<"M", "E", "C", "H", "A", "N", "I", "C", "A", "L">>, value |-> Str(<<"M", "E", "C", "H", "A", "N", "I", "C", "A", "L", " ", "E", "N", "G", "I", "N", "E", "E", "R", "I", "N", "G">>)],
      [key |-> <<"C", "I", "V", "I", "L">>, value |-> Str(<<"C", "I", "V", "I", "L", " ", "E", "N", "G", "I", "N", "E", "E", "R", "I", "N", "G">>)],
      [key |-> <<"E", "L", "E", "C", "T", "R", "I", "C", "A", "L">>, value |-> Str(<<"E", "L", "E", "C", "T", "R", "I", "C", "A", "L", " ", "E", "N", "G", "I", "N", "E", "E", "R", "I", "N", "G">>)],
      [key |-> <<"E", "L", "E", "C", "T", "R", "O", "N", "I", "C", "S">>, value |-> Str(<<"E", "L", "E", "C", "T", "R", "O", "N", "I", "C", "S", " ", "E", "N", "G", "I", "N", "E", "E", "R", "I", "N", "G">>)],
      [key |-> <<"I", "N", "F", "O", "R", "M", "A", "T", "I", "O", "N">>, value |-> Str(<<"I", "N", "F", "O", "R", "M", "A", "T", "I", "O", "N", " ", "T", "E", "C", "H", "N", "O", "L", "O", "G", "Y">>)],
      [key |-> <<"I", "T">>, value |-> Str(<<"I", "N", "F", "O", "R", "M", "A", "T", "I", "O", "N", " ", "T", "E", "C", "H", "N", "O", "L", "O", "G", "Y">>)]
    >>

normalize_department(text) ==
    LET found == {k \in 1..Len(valid_departments) : Contains(text, valid_departments[k].key)}
    IN  IF found # {}
        THEN valid_departments[CHOOSE k \in found : \A m \in found : k <= m].value
        ELSE IF Contains(text, <<"E", "N", "G", "I", "N", "E", "E", "R">>) \/ Contains(text, <<"E", "N", "G", "I", "N">>)
        THEN IF Contains(text, <<"C", "O", "M", "P", "U">>) \/ Contains(text, <<"C", "O", "M", "P">>) THEN Str(<<"C", "O", "M", "P", "U", "T", "E", "R", " ", "E", "N", "G", "I", "N", "E", "E", "R", "I", "N", "G">>)
             ELSE IF Contains(text, <<"M", "E", "C", "H">>) THEN Str(<<"M", "E", "C", "H", "A", "N", "I", "C", "A", "L", " ", "E", "N", "G", "I", "N", "E", "E", "R", "I", "N", "G">>)
             ELSE IF Contains(text, <<"C", "I", "V", "I", "L">>) THEN Str(<<"C", "I", "V", "I", "L", " ", "E", "N", "G", "I", "N", "E", "E", "R", "I", "N", "G">>)
             ELSE IF Contains(text, <<"E", "L", "E", "C", "T">>) THEN Str(<<"E", "L", "E", "C", "T", "R", "I", "C", "A", "L", " ", "E", "N", "G", "I", "N", "E", "E", "R", "I", "N", "G">>)
             ELSE IF Contains(text, <<"E", "L", "E", "C", "T", "R", "O", "N">>) THEN Str(<<"E", "L", "E", "C", "T", "R", "O", "N", "I", "C", "S", " ", "E", "N", "G", "I", "N", "E", "E", "R", "I", "N", "G">>)
             ELSE IF Contains(text, <<"I", "N", "F", "O">>) \/ Contains(text, <<"I", "T">>) THEN Str(<<"I", "N", "F", "O", "R", "M", "A", "T", "I", "O", "N", " ", "T", "E", "C", "H", "N", "O", "L", "O", "G", "Y">>)
             ELSE None
        ELSE None

\* a sort on the confidence without reverse=True: ascending, stable
RECURSIVE SortByConfidence_Ascending(_)
SortByConfidence_Ascending(candidates) ==
    IF Len(candidates) <= 1 THEN candidates
    ELSE LET x == candidates[1]
             rest == SortByConfidence_Ascending(Tail(candidates))
             before == SelectSeq(rest, LAMBDA y : y.confidence < x.confidence)
             after == SelectSeq(rest, LAMBDA y : y.confidence >= x.confidence)
         IN  before \o <<x>> \o after

\* candidates.sort(key=lambda x: x[1], reverse=True): descending on the confidence
\* and stable, so candidates of equal confidence keep the order they came in
RECURSIVE SortByConfidence(_)
SortByConfidence(candidates) ==
    IF Len(candidates) <= 1 THEN candidates
    ELSE LET x == candidates[1]
             rest == SortByConfidence(Tail(candidates))
             before == SelectSeq(rest, LAMBDA y : y.confidence > x.confidence)
             after == SelectSeq(rest, LAMBDA y : y.confidence <= x.confidence)
         IN  before \o <<x>> \o after

\* the fragments the loop over ocr_results keeps (not unwanted)
FilteredFragments(ocr_results) ==
    SelectSeq(ocr_results, LAMBDA f : ~is_unwanted_text(f.text.str))

\* valid_names: the name candidates, less the departments, re-checked
ValidNames(ocr_results) ==
    LET name_candidates == SelectSeq(FilteredFragments(ocr_results),
                                     LAMBDA f : is_likely_name(f.text.str))
        not_department == SelectSeq(name_candidates, LAMBDA f : ~is_department(f.text.str))
    IN  SelectSeq(not_department, LAMBDA f : is_likely_name(f.text.str))

\* the fields of result that process_single_image fills from ocr_results
ParseOcrResults(ocr_results) ==
    LET kept == FilteredFragments(ocr_results)
        with_id == SelectSeq(kept, LAMBDA f : extract_moodle_id(f.text.str) # None)
        moodle_id == IF with_id = <<>> THEN None
                     ELSE extract_moodle_id(with_id[Len(with_id)].text.str)
        department_candidates ==
            SortByConfidence(SelectSeq(kept, LAMBDA f : is_department(f.text.str)))
        department == IF department_candidates = <<>> THEN None
                      ELSE normalize_department(department_candidates[1].text.str)
        valid_names == SortByConfidence(ValidNames(ocr_results))
        name == IF valid_names = <<>> THEN None ELSE valid_names[1].text
        scores1 == IF with_id = <<>> THEN EmptyDict
                   ELSE DictSet(EmptyDict, "moodle_id", with_id[Len(with_id)].confidence)
        scores2 == IF department = None THEN scores1
                   ELSE DictSet(scores1, "department", department_candidates[1].confidence)
        scores3 == IF valid_names = <<>> THEN scores2
                   ELSE DictSet(scores2, "name", valid_names[1].confidence)
    IN  [moodle_id |-> moodle_id,
         department |-> department,
         name |-> name,
         confidence_scores |-> scores3,
         success |-> (moodle_id # None \/ name # None \/ department # None)]

----------------------------------------------------------------------------
(***************************************************************************)
(* The Moodle ID extraction of OfflineIDCardRecognizer.parse_id_card_data  *)
(* (campus-access-control/offline_id_card_recognizer.py, lines 308-337):   *)
(* re.search with each pattern of moodle_patterns in turn, then with the   *)
(* fallback pattern.  A match is the position of its group (\d{8}), 0 when *)
(* the pattern does not match at the position tried.                       *)
(***************************************************************************)

LowerLetters ==
    {"a", "b", "c", "d", "e", "f", "g", "h", "i", "j", "k", "l", "m",
     "n", "o", "p", "q", "r", "s", "t", "u", "v", "w", "x", "y", "z"}

\* \w
WordChars == Letters \cup LowerLetters \cup Digits \cup {"_"}

\* \s, of which the joined text only has the blank
Whitespace == {" "}

\* the texts of the OCR fragments of one card
IdCardTexts ==
    {Str(<<"I", "D", " ", "N", "O">>),
     Str(<<"i", "d", ":">>),
     Str(<<"2", "2", "1", "0", "2", "0", "0", "3">>),
     Str(<<"1", "2", "3", "4", "5", "6", "7", "8">>),
     Str(<<"9", "2", "2", "1", "0", "2", "0", "0", "3">>)}

\* " ".join(texts)
RECURSIVE JoinTexts(_)
JoinTexts(texts) ==
    IF texts = <<>> THEN <<>>
    ELSE IF Len(texts) = 1 THEN texts[1].str
    ELSE texts[1].str \o <<" ">> \o JoinTexts(Tail(texts))

\* no \b at all: every position counts as a word boundary
WordBoundary_Anywhere(text, i) == TRUE

\* \b between text[i-1] and text[i]
WordBoundary(text, i) ==
    LET before == i > 1 /\ i - 1 <= Len(text) /\ text[i - 1] \in WordChars
        after == i >= 1 /\ i <= Len(text) /\ text[i] \in WordChars
    IN  before # after

\* \d{8} at position i
EightDigitsAt(text, i) ==
    /\ i >= 1
    /\ i + 7 <= Len(text)
    /\ \A k \in i..(i + 7) : text[k] \in Digits

\* the position after the longest run of characters of class that starts at i
RECURSIVE SkipClass(_, _, _)
SkipClass(text, i, class) ==
    IF i <= Len(text) /\ text[i] \in class THEN SkipClass(text, i + 1, class) ELSE i

\* two letters at position i, whatever their case (re.IGNORECASE)
LettersAt(text, i, first, second) ==
    /\ i >= 1
    /\ i + 1 <= Len(text)
    /\ text[i] \in first
    /\ text[i + 1] \in second

\* ID\s*NO[:\s]*(\d{8}) at position i
MatchIdNo(text, i) ==
    LET j == SkipClass(text, i + 2, Whitespace)
        k == SkipClass(text, j + 2, {":"} \cup Whitespace)
    IN  IF /\ LettersAt(text, i, {"I", "i"}, {"D", "d"})
           /\ LettersAt(text, j, {"N", "n"}, {"O", "o"})
           /\ EightDigitsAt(text, k)
        THEN k ELSE 0

\* ID[:\s]*(\d{8}) at position i
MatchId(text, i) ==
    LET k == SkipClass(text, i + 2, {":"} \cup Whitespace)
    IN  IF LettersAt(text, i, {"I", "i"}, {"D", "d"}) /\ EightDigitsAt(text, k)
        THEN k ELSE 0

\* \b(2\d{7})\b at position i
MatchNumberFrom2(text, i) ==
    IF /\ WordBoundary(text, i)
       /\ EightDigitsAt(text, i)
       /\ text[i] = "2"
       /\ WordBoundary(text, i + 8)
    THEN i ELSE 0

\* \b(\d{8})\b at position i
MatchNumber(text, i) ==
    IF WordBoundary(text, i) /\ EightDigitsAt(text, i) /\ WordBoundary(text, i + 8)
    THEN i ELSE 0

\* re.search(pattern, text).group(1), None without a match: the group of the
\* match at the leftmost position where the pattern matches; group_at[i] is
\* the position of the group of the match at position i, 0 without a match there
re_search(text, group_at) ==
    LET at == {i \in 1..Len(text) : group_at[i] # 0}
        i0 == CHOOSE i \in at : \A j \in at : i <= j
    IN  IF at = {} THEN None
        ELSE Str(SubSeq(text, group_at[i0], group_at[i0] + 7))

\* lines 320-337: the first pattern of moodle_patterns that matches, else the
\* fallback to any number of 8 digits
ExtractMoodleId(all_text) ==
    LET positions == 1..Len(all_text)
        id_no == re_search(all_text, [i \in positions |-> MatchIdNo(all_text, i)])
        id == re_search(all_text, [i \in positions |-> MatchId(all_text, i)])
        from2 == re_search(all_text, [i \in positions |-> MatchNumberFrom2(all_text, i)])
        any == re_search(all_text, [i \in positions |-> MatchNumber(all_text, i)])
    IN  IF id_no # None THEN id_no
        ELSE IF id # None THEN id
        ELSE IF from2 # None THEN from2
        ELSE any

\* the raw_text and moodle_id fields of the card_data of parse_id_card_data
ParseIdCardData(ocr_results) ==
    LET all_text == JoinTexts(ocr_results)
    IN  [raw_text |-> Str(all_text), moodle_id |-> ExtractMoodleId(all_text)]

----------------------------------------------------------------------------
(***************************************************************************)
(* VehiclePlateRecognizer.clean_plate_text and format_indian_plate         *)
(* (campus-access-control/vehicle_plate_recognizer.py, lines 145-193) with *)
(* PLATE_CHAR_CORRECTIONS (config/config.py, lines 62-69), on strings of   *)
(* characters.                                                             *)
(***************************************************************************)

\* what the OCR can read on a plate MH 12 AB 1234: the state code, the district
\* number, the series letters, the number, and what it reads between them
PlateStates == {<<"M", "H">>, <<"G", "J">>, <<"m", "h">>}
PlateDistricts == {<<"1", "2">>, <<"I", "2">>, <<"O", "1">>}
PlateSeries == {<<"A", "B">>, <<"S">>, <<"X", "Y">>, <<"G", "Z">>}
PlateNumbers == {<<"1", "2", "3", "4">>, <<"I", "2", "3", "4">>, <<"5", "O", "7", "8">>}
PlateSeparators == {<<>>, <<" ">>, <<"-">>, <<".", " ">>}

PlateReadings ==
    [state : PlateStates, district : PlateDistricts, series : PlateSeries,
     number : PlateNumbers, sep : PlateSeparators]

\* the text the OCR returns for a reading
PlateText(p) ==
    p.state \o p.sep \o p.district \o p.sep \o p.series \o p.sep \o p.number

UpperCase == <<"A", "B", "C", "D", "E", "F", "G", "H", "I", "J", "K", "L", "M", "N", "O", "P", "Q", "R", "S", "T", "U", "V", "W", "X", "Y", "Z">>

LowerCase == <<"a", "b", "c", "d", "e", "f", "g", "h", "i", "j", "k", "l", "m", "n", "o", "p", "q", "r", "s", "t", "u", "v", "w", "x", "y", "z">>

\* str.upper()
Upper(text) ==
    [i \in 1..Len(text) |->
        IF \E k \in 1..26 : LowerCase[k] = text[i]
        THEN UpperCase[CHOOSE k \in 1..26 : LowerCase[k] = text[i]]
        ELSE text[i]]

\* PLATE_CHAR_CORRECTIONS, in the order of the dict
PLATE_CHAR_CORRECTIONS ==
    <<[old |-> "O", new |-> "0"], [old |-> "I", new |-> "1"], [old |-> "S", new |-> "5"],
      [old |-> "Z", new |-> "2"], [old |-> "B", new |-> "8"], [old |-> "G", new |-> "6"]>>

\* text.replace(old_char, new_char), for single characters
StrReplace(text, old_char, new_char) ==
    [i \in 1..Len(text) |-> IF text[i] = old_char THEN new_char ELSE text[i]]

\* the loop over PLATE_CHAR_CORRECTIONS.items(), from the k-th item on
RECURSIVE ApplyCorrections(_, _)
ApplyCorrections(text, k) ==
    IF k > Len(PLATE_CHAR_CORRECTIONS) THEN text
    ELSE ApplyCorrections(StrReplace(text, PLATE_CHAR_CORRECTIONS[k].old,
                                     PLATE_CHAR_CORRECTIONS[k].new), k + 1)

\* ' '.join(text.split()): no blank at either end and one between the words
RECURSIVE JoinSplit(_)
JoinSplit(text) ==
    IF text = <<>> THEN <<>>
    ELSE IF text[1] \in Whitespace THEN JoinSplit(Tail(text))
    ELSE IF Len(text) = 1 THEN text
    ELSE IF text[2] \in Whitespace
         THEN LET rest == JoinSplit(Tail(text))
              IN  IF rest = <<>> THEN <<text[1]>> ELSE <<text[1], " ">> \o rest
    ELSE <<text[1]>> \o JoinSplit(Tail(text))

\* clean[a:b] of Python, a and b counted from 0
Slice(clean, a, b) ==
    SubSeq(clean, a + 1, IF b < Len(clean) THEN b ELSE Len(clean))

format_indian_plate(text) ==
    LET clean == SelectSeq(text, LAMBDA c : c # " " /\ c # "-")
    IN  IF Len(clean) >= 10
        THEN Slice(clean, 0, 2) \o <<"-">> \o Slice(clean, 2, 4) \o <<"-">>
                \o Slice(clean, 4, 6) \o <<"-">> \o Slice(clean, 6, 10)
        ELSE IF Len(clean) >= 9
        THEN Slice(clean, 0, 2) \o <<"-">> \o Slice(clean, 2, 4) \o <<"-">>
                \o Slice(clean, 4, 6) \o <<"-">> \o Slice(clean, 6, Len(clean))
        ELSE text

clean_plate_text(text) ==
    LET kept == SelectSeq(Upper(text),
                          LAMBDA c : c \in Letters \cup Digits \cup {"-"} \cup Whitespace)
        corrected == ApplyCorrections(kept, 1)
    IN  format_indian_plate(JoinSplit(corrected))

----------------------------------------------------------------------------
(***************************************************************************)
(* OfflineIDCardRecognizer.save_card_data                                  *)
(* (campus-access-control/offline_id_card_recognizer.py, lines 508-541).   *)
(* A datetime is the record [at |-> seconds]; datetime.min is a record of  *)
(* its own, further in the past than any cooldown.                         *)
(***************************************************************************)

DatetimeMin == [min |-> TRUE]

\* a cooldown one second short
InCooldown_OneShort(last_time, t) ==
    Has(last_time, "at") /\ t - last_time.at < ID_CARD_SAVE_COOLDOWN - 1

\* (now - self.last_save_time).total_seconds() < ID_CARD_SAVE_COOLDOWN
InCooldown(last_time, t) ==
    Has(last_time, "at") /\ t - last_time.at < ID_CARD_SAVE_COOLDOWN

----------------------------------------------------------------------------
(***************************************************************************)
(* The plate extraction of License-Plate-Extraction-Save-Data-to-SQL-      *)
(* Database: process_video of process_all_videos.py (lines 110-195) and    *)
(* the capture loop of main.py (lines 125-184), with their save_json and   *)
(* save_to_database.                                                       *)
(***************************************************************************)

videoVars == <<video_pc, count, startTime, license_plates, json_files, json_data,
               db_rows, plates_added>>

video_name == "demo.mp4"

\* what extract_text / paddle_ocr returns for a box: the text read, or the
\* empty string when no fragment is confident enough
Labels == {"", "MH12AB1234", "KA01CD5678"}

\* the labels of the boxes of one frame
FrameLabels == SUBSET Labels

\* the elements of a set in some order
RECURSIVE SetToSeq(_)
SetToSeq(S) ==
    IF S = {} THEN <<>>
    ELSE LET x == CHOOSE x \in S : TRUE IN <<x>> \o SetToSeq(S \ {x})

\* open(name, 'w') and json.dump: a new file, or the new content of an old one
WriteFile(files, name, data) ==
    IF \E i \in 1..Len(files) : files[i].name = name
    THEN [i \in 1..Len(files) |->
            IF files[i].name = name THEN [name |-> name, data |-> data] ELSE files[i]]
    ELSE Append(files, [name |-> name, data |-> data])

\* the interval_data of save_json
IntervalData(plates, start_time, end_time) ==
    [Video |-> video_name, StartTime |-> start_time, EndTime |-> end_time,
     LicensePlates |-> plates]

\* the rows save_to_database inserts, one per plate
IntervalRows(plates, start_time, end_time) ==
    LET seq == SetToSeq(plates)
    IN  [i \in 1..Len(seq) |->
            [video_name |-> video_name, start_time |-> start_time,
             end_time |-> end_time, license_plate |-> seq[i]]]

\* save_json and save_to_database of process_all_videos.py for the plates of the
\* interval from startTime to end_time
SaveInterval(plates, end_time) ==
    /\ json_files' = WriteFile(json_files, <<"output", video_name, now>>,
                               IntervalData(plates, startTime, end_time))
    /\ json_data' = Append(json_data, IntervalData(plates, startTime, end_time))
    /\ db_rows' = db_rows \o IntervalRows(plates, startTime, end_time)

\* save_json of main.py, which calls save_to_database itself; its records and
\* rows do not name the video
MainSaveInterval(plates, end_time) ==
    LET interval_data == [StartTime |-> startTime, EndTime |-> end_time,
                          LicensePlate |-> plates]
        seq == SetToSeq(plates)
    IN  /\ json_files' = WriteFile(json_files, <<"output", now>>, interval_data)
        /\ json_data' = Append(json_data, interval_data)
        /\ db_rows' = db_rows \o
                [i \in 1..Len(seq) |->
                    [start_time |-> startTime, end_time |-> end_time,
                     license_plate |-> seq[i]]]

\* the remaining plates are never saved
HasRemaining_Never(plates) == FALSE

\* if license_plates: after the loop of process_video
HasRemaining(plates) == plates # {}

\* (currentTime - startTime).seconds >= 20
IntervalOver(currentTime, start_time) ==
    TdSeconds(currentTime - start_time) >= SaveIntervalSeconds

----------------------------------------------------------------------------
(***************************************************************************)
(* The students router of the backend (backend/app/routers/students.py)    *)
(* over the table of backend/app/models/student.py, whose columns          *)
(* moodle_id and email are unique.  A request gets its own session; a      *)
(* commit that breaks a unique constraint raises IntegrityError, which no  *)
(* code of the router or of main.py handles: the answer is a 500.          *)
(***************************************************************************)

Emails == {"john@apsit.edu.in", "anita@apsit.edu.in"}

\* the query parameters of a POST /api/students/
CreateArgs ==
    [moodle_id : MoodleIds, name : {"JOHN SMITH"}, email : Emails,
     department : {"COMPUTER ENGINEERING"}]

\* the parameters of a PUT /api/students/{moodle_id}: name and phone are
\* optional and may be empty
UpdateArgs ==
    {[moodle_id |-> m] : m \in MoodleIds} \cup
    [moodle_id : MoodleIds, name : {"", "J SMITH"}] \cup
    [moodle_id : MoodleIds, phone : {"", "9800000000"}]

\* the query never finds a row
QueryFirst_Never(table, moodle_id) == None

\* db.query(Student).filter(Student.moodle_id == moodle_id).first()
QueryFirst(table, moodle_id) ==
    LET found == {i \in 1..Len(table) : table[i].moodle_id = moodle_id}
    IN  IF found = {} THEN None ELSE table[CHOOSE i \in found : \A j \in found : i <= j]

\* the id an INSERT gives a new row
NextId(table) ==
    IF table = <<>> THEN 1
    ELSE 1 + (CHOOSE n \in {table[i].id : i \in 1..Len(table)} :
                \A i \in 1..Len(table) : table[i].id <= n)

\* the INSERT of a row breaks unique=True of moodle_id or of email
UniqueViolation(table, student) ==
    \E i \in 1..Len(table) :
        \/ table[i].moodle_id = student.moodle_id
        \/ table[i].email = student.email

\* Student(moodle_id=..., name=..., email=..., department=...)
NewStudent(args) ==
    [moodle_id |-> args.moodle_id, name |-> args.name, email |-> args.email,
     department |-> args.department, phone |-> None, is_active |-> TRUE]

\* an HTTP answer
Response(status_code, detail, body) ==
    [status_code |-> status_code, detail |-> detail, body |-> body]

\* lines 55-66 of create_student: db.add, db.commit, db.refresh, return
CreateCommit(table, args) ==
    IF UniqueViolation(table, NewStudent(args))
    THEN [students |-> table,
          response |-> Response(500, "Internal Server Error", None)]
    ELSE LET row == NewStudent(args) @@ [id |-> NextId(table)]
         IN  [students |-> Append(table, row), response |-> Response(200, "", row)]

\* the answer of lines 52-53
AlreadyExists == Response(400, "Student already exists", None)

\* create_student, served without another request in between
CreateStudent(table, args) ==
    IF QueryFirst(table, args.moodle_id) # None
    THEN [students |-> table, response |-> AlreadyExists]
    ELSE CreateCommit(table, args)

\* if name: / if phone: - a parameter given and not empty
Given(args, k) == Has(args, k) /\ args[k] # ""

\* update_student
UpdateStudent(table, args) ==
    LET student == QueryFirst(table, args.moodle_id)
        Updated(r) == [r EXCEPT !.name = IF Given(args, "name") THEN args.name ELSE @,
                                !.department = IF Given(args, "department")
                                               THEN args.department ELSE @,
                                !.phone = IF Given(args, "phone")
                                          THEN [str |-> args.phone] ELSE @]
    IN  IF student = None
        THEN [students |-> table, response |-> Response(404, "Student not found", None)]
        ELSE [students |-> [i \in 1..Len(table) |->
                                IF table[i].id = student.id THEN Updated(table[i])
                                ELSE table[i]],
              response |-> Response(200, "", Updated(student))]

\* delete_student
DeleteStudent(table, moodle_id) ==
    LET student == QueryFirst(table, moodle_id)
    IN  IF student = None
        THEN [students |-> table, response |-> Response(404, "Student not found", None)]
        ELSE [students |-> SelectSeq(table, LAMBDA r : r.id # student.id),
              response |-> Response(200, "Student deleted successfully", None)]

----------------------------------------------------------------------------
(* State *)

\* what a call did: outcome is what it did to the pending set ("ignored", "stored",
\* "matched", or "none" when it stopped before), pending the entry it was handed by
\* check_pending_verification, result the decision it made, raised whether it
\* ended in an exception, announced whether it printed ACCESS GRANTED
TypeLast(op, arg, outcome, pending, result, raised, announced) ==
    [op |-> op, at |-> now, arg |-> arg, outcome |-> outcome,
     pending |-> pending, result |-> result, raised |-> raised, announced |-> announced]

Init ==
    /\ now = 0
    /\ REQUIRE_BOTH_VERIFICATIONS \in BOOLEAN
    /\ SEND_ALERTS \in BOOLEAN
    /\ pending_verifications = <<>>
    /\ access_log = <<>>
    /\ log_file = <<>>
    /\ alert_file = <<>>
    /\ stats = [total_attempts |-> 0, access_granted |-> 0, access_denied |-> 0,
                vehicle_only |-> 0, id_card_only |-> 0, both_verified |-> 0]
    /\ disk_ok = TRUE
    /\ session_report = None
    /\ calls = 0
    /\ last = [op |-> "__init__", at |-> 0, arg |-> None, outcome |-> "none",
               pending |-> None, result |-> None, raised |-> FALSE, announced |-> FALSE]
    /\ last_save_time = DatetimeMin
    /\ saved_cards = <<>>
    /\ video_pc = "reading"
    /\ count = 0
    /\ startTime = 0
    /\ license_plates = {}
    /\ json_files = <<>>
    /\ json_data = <<>>
    /\ db_rows = <<>>
    /\ plates_added = {}
    /\ students = <<>>
    /\ requests = <<>>

\* an uncaught exception ends the run: nothing in the program catches it;
\* and the report is the last thing a run does
Running == ~last.raised /\ session_report = None

Install(s) ==
    /\ pending_verifications' = s.pending_verifications
    /\ access_log' = s.access_log
    /\ log_file' = s.log_file
    /\ alert_file' = s.alert_file
    /\ stats' = s.stats

\* the wall clock advances between two calls
Tick(d) ==
    /\ Running
    /\ (now % SecondsPerDay) + d <= MaxOffset
    /\ now' = now + d
    /\ UNCHANGED <<extVars, REQUIRE_BOTH_VERIFICATIONS, SEND_ALERTS, pending_verifications,
                   access_log, log_file, alert_file, stats, disk_ok, session_report,
                   calls, last>>

\* the system stays up over a whole day
TickDay ==
    /\ Running
    /\ now + SecondsPerDay <= MaxDays * SecondsPerDay + MaxOffset
    /\ now' = now + SecondsPerDay
    /\ UNCHANGED <<extVars, REQUIRE_BOTH_VERIFICATIONS, SEND_ALERTS, pending_verifications,
                   access_log, log_file, alert_file, stats, disk_ok, session_report,
                   calls, last>>

\* the early return with is_valid defaulting to True when the key is missing
Rejected_DefaultTrue(data) == ~Truthy(data) \/ ~Get(data, "is_valid", TRUE)

\* not data or not data.get('is_valid')
Rejected(data) == ~Truthy(data) \/ ~Get(data, "is_valid", FALSE)

\* a pending entry that carries the observation on both sides
PendingEntry_BothSides(kind, data, timestamp) ==
    [timestamp |-> timestamp, vehicle |-> data, id_card |-> data]

\* the dict stored for a one-sided observation
PendingEntry(kind, data, timestamp) ==
    [timestamp |-> timestamp,
     vehicle |-> IF kind = "vehicle" THEN data ELSE None,
     id_card |-> IF kind = "id_card" THEN data ELSE None]

process_vehicle_detection(vehicle_data) ==
    /\ Running
    /\ calls < MaxCalls
    /\ calls' = calls + 1
    /\ UNCHANGED <<extVars, now, REQUIRE_BOTH_VERIFICATIONS, SEND_ALERTS, disk_ok, session_report>>
    /\ IF Rejected(vehicle_data)
       THEN /\ last' = TypeLast("process_vehicle_detection", vehicle_data, "ignored",
                            None, None, FALSE, FALSE)
            /\ UNCHANGED <<pending_verifications, access_log, log_file, alert_file, stats>>
       ELSE
         LET plate_number == vehicle_data.plate_text
             c == check_pending_verification(Self, [plate_number |-> plate_number], now)
             pending == c.ret
         IN  IF c.raised
             THEN /\ Install(c.self)
                  /\ last' = TypeLast("process_vehicle_detection", vehicle_data, "none",
                                      None, None, TRUE, FALSE)
             ELSE IF Truthy(pending)
             THEN LET m == match_vehicle_and_id(c.self, vehicle_data,
                                                Get(pending, "id_card", None), now)
                      saved == save_access_log(m.self, m.result)
                      \* the announcement evaluates pending.get('id_card', {}).get(...)
                      ok == ~saved.exc /\ Get(pending, "id_card", EmptyDict) # None
                  IN  /\ Install(saved)
                      /\ last' = TypeLast("process_vehicle_detection", vehicle_data,
                                          "matched", pending, m.result, ~ok, ok)
             ELSE /\ Install([c.self EXCEPT !.pending_verifications =
                                DictSet(@, <<"vehicle", plate_number, now>>,
                                        PendingEntry("vehicle", vehicle_data, now))])
                  /\ last' = TypeLast("process_vehicle_detection", vehicle_data, "stored",
                                      None, None, FALSE, FALSE)

process_id_card_detection(id_card_data) ==
    /\ Running
    /\ calls < MaxCalls
    /\ calls' = calls + 1
    /\ UNCHANGED <<extVars, now, REQUIRE_BOTH_VERIFICATIONS, SEND_ALERTS, disk_ok, session_report>>
    /\ IF Rejected(id_card_data)
       THEN /\ last' = TypeLast("process_id_card_detection", id_card_data, "ignored",
                            None, None, FALSE, FALSE)
            /\ UNCHANGED <<pending_verifications, access_log, log_file, alert_file, stats>>
       ELSE
         LET moodle_id == id_card_data.moodle_id
             c == check_pending_verification(Self, [moodle_id |-> moodle_id], now)
             pending == c.ret
         IN  IF c.raised
             THEN /\ Install(c.self)
                  /\ last' = TypeLast("process_id_card_detection", id_card_data, "none",
                                      None, None, TRUE, FALSE)
             ELSE IF Truthy(pending)
             THEN LET m == match_vehicle_and_id(c.self, Get(pending, "vehicle", None),
                                                id_card_data, now)
                      saved == save_access_log(m.self, m.result)
                      \* the announcement evaluates pending.get('vehicle', {}).get(...)
                      ok == ~saved.exc /\ Get(pending, "vehicle", EmptyDict) # None
                  IN  /\ Install(saved)
                      /\ last' = TypeLast("process_id_card_detection", id_card_data,
                                          "matched", pending, m.result, ~ok, ok)
             ELSE /\ Install([c.self EXCEPT !.pending_verifications =
                                DictSet(@, <<"id_card", moodle_id, now>>,
                                        PendingEntry("id_card", id_card_data, now))])
                  /\ last' = TypeLast("process_id_card_detection", id_card_data, "stored",
                                      None, None, FALSE, FALSE)

\* a direct call of match_vehicle_and_id, with any pair of arguments
match_call(vehicle_data, id_card_data) ==
    /\ Running
    /\ calls < MaxCalls
    /\ calls' = calls + 1
    /\ LET m == match_vehicle_and_id(Self, vehicle_data, id_card_data, now)
       IN  /\ stats' = m.self.stats
           /\ last' = TypeLast("match_vehicle_and_id",
                               [vehicle_data |-> vehicle_data, id_card_data |-> id_card_data],
                               "none", None, m.result, FALSE, FALSE)
    /\ UNCHANGED <<extVars, now, REQUIRE_BOTH_VERIFICATIONS, SEND_ALERTS, pending_verifications,
                   access_log, log_file, alert_file, disk_ok, session_report>>

\* the run loop is left and the final report is written; nothing else is done
\* with the entries that are still pending
generate_session_report ==
    /\ Running
    /\ IF disk_ok
       THEN session_report' = [session_ended |-> now,
                               statistics |-> stats,
                               pending_verifications |-> Len(pending_verifications),
                               total_access_logs |-> Len(access_log)]
       ELSE session_report' = session_report
    /\ last' = TypeLast("generate_session_report", None, "none", None, None, ~disk_ok, FALSE)
    /\ UNCHANGED <<extVars, now, REQUIRE_BOTH_VERIFICATIONS, SEND_ALERTS, pending_verifications,
                   access_log, log_file, alert_file, stats, disk_ok, calls>>

\* check_pending_verification called with neither argument: the expiry sweep alone
sweep ==
    /\ Running
    /\ calls < MaxCalls
    /\ calls' = calls + 1
    /\ LET c == check_pending_verification(Self, EmptyDict, now)
       IN  /\ Install(c.self)
           /\ last' = TypeLast("check_pending_verification",
                               [after |-> last.op, after_at |-> last.at],
                               "none", c.ret, None, c.raised, FALSE)
    /\ UNCHANGED <<extVars, now, REQUIRE_BOTH_VERIFICATIONS, SEND_ALERTS, disk_ok, session_report>>

\* the disk under ACCESS_LOG_DIR fails, or comes back
DiskChange ==
    /\ Running
    /\ disk_ok' = ~disk_ok
    /\ UNCHANGED <<extVars, now, REQUIRE_BOTH_VERIFICATIONS, SEND_ALERTS, pending_verifications,
                   access_log, log_file, alert_file, stats, session_report, calls, last>>

Next ==
    \/ \E d \in Steps : Tick(d)
    \/ TickDay
    \/ \E v \in VehicleInputs : process_vehicle_detection(v)
    \/ \E c \in IdCardInputs : process_id_card_detection(c)
    \/ generate_session_report

\* the program on a disk that works
Spec == Init /\ [][Next]_vars

\* the matcher with the sweep also run on its own
NextSweep ==
    \/ \E d \in Steps : Tick(d)
    \/ \E v \in ValidVehicles : process_vehicle_detection(v)
    \/ \E c \in ValidIdCards : process_id_card_detection(c)
    \/ sweep

SpecSweep == Init /\ [][NextSweep]_vars

\* the matcher on a disk that can fail
NextIO ==
    \/ \E d \in Steps : Tick(d)
    \/ \E v \in ValidVehicles : process_vehicle_detection(v)
    \/ \E c \in ValidIdCards : process_id_card_detection(c)
    \/ DiskChange

SpecIO == Init /\ [][NextIO]_vars

\* the OCR results an image can give: up to MaxFragments (text, confidence) pairs
OcrFragments == [text : OcrTexts, confidence : OcrConfidences]

OcrResults == UNION {[1..n -> OcrFragments] : n \in 0..MaxFragments}

\* one image is processed
process_single_image(ocr_results) ==
    /\ calls = 0
    /\ calls' = calls + 1
    /\ last' = TypeLast("process_single_image", ocr_results, "none", None,
                        ParseOcrResults(ocr_results), FALSE, FALSE)
    /\ UNCHANGED <<extVars, now, REQUIRE_BOTH_VERIFICATIONS, SEND_ALERTS, pending_verifications,
                   access_log, log_file, alert_file, stats, disk_ok, session_report>>

NextBatch == \E ocr_results \in OcrResults : process_single_image(ocr_results)

\* the batch extraction on its own: every OCR result of up to MaxFragments fragments
SpecBatch == Init /\ [][NextBatch]_vars

\* the OCR results of one card: up to MaxFragments texts
IdCardOcrResults == UNION {[1..n -> IdCardTexts] : n \in 0..MaxFragments}

\* the OCR results of one card are parsed
parse_id_card_data(ocr_results) ==
    /\ calls = 0
    /\ calls' = calls + 1
    /\ last' = TypeLast("parse_id_card_data", ocr_results, "none", None,
                        ParseIdCardData(ocr_results), FALSE, FALSE)
    /\ UNCHANGED <<extVars, now, REQUIRE_BOTH_VERIFICATIONS, SEND_ALERTS, pending_verifications,
                   access_log, log_file, alert_file, stats, disk_ok, session_report>>

NextParse == \E ocr_results \in IdCardOcrResults : parse_id_card_data(ocr_results)

\* the parsing of an ID card on its own: every OCR result of up to MaxFragments texts
SpecParse == Init /\ [][NextParse]_vars

\* the text read from one plate is cleaned
clean_plate_text_call(p) ==
    /\ calls = 0
    /\ calls' = calls + 1
    /\ last' = TypeLast("clean_plate_text", p, "none", None,
                        Str(clean_plate_text(PlateText(p))), FALSE, FALSE)
    /\ UNCHANGED <<extVars, now, REQUIRE_BOTH_VERIFICATIONS, SEND_ALERTS, pending_verifications,
                   access_log, log_file, alert_file, stats, disk_ok, session_report>>

NextPlate == \E p \in PlateReadings : clean_plate_text_call(p)

\* the cleaning of a plate text on its own: every reading of PlateReadings
SpecPlate == Init /\ [][NextPlate]_vars

\* a second passes while the recognizer runs
TickSecond ==
    /\ now < MaxSaveClock
    /\ now' = now + 1
    /\ UNCHANGED <<REQUIRE_BOTH_VERIFICATIONS, SEND_ALERTS, pending_verifications,
                   access_log, log_file, alert_file, stats, disk_ok, session_report,
                   calls, last, extVars>>

\* save_card_data(card_data, card_image, photo): the JSON file and the images,
\* named after the time and the moodle_id, are one entry of saved_cards
save_card_data(card_data) ==
    /\ IF InCooldown(last_save_time, now)
       THEN /\ UNCHANGED <<last_save_time, saved_cards>>
            /\ last' = TypeLast("save_card_data", card_data, "skipped", None, None,
                                FALSE, FALSE)
       ELSE /\ last_save_time' = [at |-> now]
            /\ saved_cards' = Append(saved_cards,
                                     [timestamp |-> now,
                                      moodle_id |-> Get(card_data, "moodle_id", "unknown"),
                                      card_data |-> card_data])
            /\ last' = TypeLast("save_card_data", card_data, "saved", None, None,
                                FALSE, FALSE)
    /\ UNCHANGED <<now, REQUIRE_BOTH_VERIFICATIONS, SEND_ALERTS, pending_verifications,
                   access_log, log_file, alert_file, stats, disk_ok, session_report, calls,
                   videoVars, students, requests>>

NextSave ==
    \/ TickSecond
    \/ \E card_data \in ValidIdCards : save_card_data(card_data)

\* the recognizer saving the cards it recognizes as the seconds pass
SpecSave == Init /\ [][NextSave]_vars

\* the state of the access control system and of the recognizer, the clock apart
otherThanVideo == <<REQUIRE_BOTH_VERIFICATIONS, SEND_ALERTS, pending_verifications,
                    access_log, log_file, alert_file, stats, disk_ok, session_report,
                    calls, last, last_save_time, saved_cards, students, requests>>

\* one iteration of the loop of process_video: cap.read() gives a frame whose
\* boxes are read as labels
process_video_frame(labels) ==
    /\ video_pc = "reading"
    /\ count < MaxFrames
    /\ count' = count + 1
    /\ LET currentTime == now
           added == {label \in labels : label # ""}
           plates == license_plates \cup added
       IN  /\ plates_added' = plates_added \cup
                    {[label |-> label, interval |-> startTime] : label \in added}
           /\ IF IntervalOver(currentTime, startTime)
              THEN /\ SaveInterval(plates, currentTime)
                   /\ startTime' = currentTime
                   /\ license_plates' = {}
              ELSE /\ license_plates' = plates
                   /\ UNCHANGED <<startTime, json_files, json_data, db_rows>>
    /\ UNCHANGED <<now, video_pc, otherThanVideo>>

\* cap.read() gives no frame: the loop of process_video ends and the remaining
\* plates are saved
process_video_end ==
    /\ video_pc = "reading"
    /\ video_pc' = "done"
    /\ IF HasRemaining(license_plates)
       THEN SaveInterval(license_plates, now)
       ELSE UNCHANGED <<json_files, json_data, db_rows>>
    /\ UNCHANGED <<now, count, startTime, license_plates, plates_added, otherThanVideo>>

NextVideo ==
    \/ \E d \in Steps : Tick(d)
    \/ TickDay
    \/ \E labels \in FrameLabels : process_video_frame(labels)
    \/ process_video_end

\* process_video of process_all_videos.py on one video, as time passes
SpecVideo == Init /\ [][NextVideo]_vars

\* one iteration of the capture loop of main.py
main_frame(labels) ==
    /\ video_pc = "reading"
    /\ count < MaxFrames
    /\ count' = count + 1
    /\ LET currentTime == now
           added == {label \in labels : label # ""}
           plates == license_plates \cup added
       IN  /\ plates_added' = plates_added \cup
                    {[label |-> label, interval |-> startTime] : label \in added}
           /\ IF IntervalOver(currentTime, startTime)
              THEN /\ MainSaveInterval(plates, currentTime)
                   /\ startTime' = currentTime
                   /\ license_plates' = {}
              ELSE /\ license_plates' = plates
                   /\ UNCHANGED <<startTime, json_files, json_data, db_rows>>
    /\ UNCHANGED <<now, video_pc, otherThanVideo>>

\* cap.read() gives no frame (or the key '1' is pressed): the capture loop of
\* main.py ends and the script releases the video and prints its summary
main_end ==
    /\ video_pc = "reading"
    /\ video_pc' = "done"
    /\ UNCHANGED <<now, count, startTime, license_plates, json_files, json_data,
                   db_rows, plates_added, otherThanVideo>>

NextMain ==
    \/ \E d \in Steps : Tick(d)
    \/ TickDay
    \/ \E labels \in FrameLabels : main_frame(labels)
    \/ main_end

\* main.py on its video, as time passes
SpecMain == Init /\ [][NextMain]_vars

\* everything but the table of students, the requests and the record of the call
otherThanStudents == <<now, REQUIRE_BOTH_VERIFICATIONS, SEND_ALERTS, pending_verifications,
                       access_log, log_file, alert_file, stats, disk_ok, session_report,
                       last_save_time, saved_cards, videoVars>>

\* a request is served from its first line to its answer
Serve(op, args, done) ==
    /\ calls < MaxCalls
    /\ calls' = calls + 1
    /\ students' = done.students
    /\ last' = TypeLast(op, args, "answered", None, done.response,
                        done.response.status_code = 500, FALSE)
    /\ UNCHANGED <<requests, otherThanStudents>>

create_student(args) == Serve("create_student", args, CreateStudent(students, args))

update_student(args) == Serve("update_student", args, UpdateStudent(students, args))

delete_student(moodle_id) ==
    Serve("delete_student", [moodle_id |-> moodle_id], DeleteStudent(students, moodle_id))

NextStudents ==
    \/ \E args \in CreateArgs : create_student(args)
    \/ \E args \in UpdateArgs : update_student(args)
    \/ \E moodle_id \in MoodleIds : delete_student(moodle_id)

\* the students router serving one request after the other
SpecStudents == Init /\ [][NextStudents]_vars

\* a create_student request arrives and runs its query (line 51); when the
\* student exists it is answered at once, else it goes on to its commit
create_student_query(args) ==
    /\ Len(requests) < MaxRequests
    /\ LET existing == QueryFirst(students, args.moodle_id)
       IN  requests' = Append(requests,
                [args |-> args,
                 existing |-> existing,
                 pc |-> IF existing # None THEN "done" ELSE "commit",
                 response |-> IF existing # None THEN AlreadyExists ELSE None])
    /\ UNCHANGED <<students, calls, last, otherThanStudents>>

\* a request that found no student adds and commits its own (lines 55-66)
create_student_commit(r) ==
    /\ requests[r].pc = "commit"
    /\ LET done == CreateCommit(students, requests[r].args)
       IN  /\ students' = done.students
           /\ requests' = [requests EXCEPT ![r].pc = "done",
                                           ![r].response = done.response]
    /\ UNCHANGED <<calls, last, otherThanStudents>>

NextStudentsRace ==
    \/ \E args \in CreateArgs : create_student_query(args)
    \/ \E r \in 1..Len(requests) : create_student_commit(r)

\* create_student requests served at the same time, by workers that share the
\* database: the query and the commit of one request are two steps
SpecStudentsRace == Init /\ [][NextStudentsRace]_vars

\* the policy function on its own: every pair of arguments, in both modes
NextMatch == \E v \in VehicleInputs, c \in IdCardInputs : match_call(v, c)

SpecMatch == Init /\ [][NextMatch]_vars

----------------------------------------------------------------------------
(* Vocabulary of the properties *)

ProcessOps == {"process_vehicle_detection", "process_id_card_detection"}

\* an observation that is present and individually valid
PresentAndValid(d) == d # None /\ Has(d, "is_valid") /\ d.is_valid = TRUE

\* real age of a pending entry at time t
Age(pending, t) == t - pending.timestamp

\* the records a step has appended to access_log
NewRecords == SubSeq(access_log', Len(access_log) + 1, Len(access_log'))

\* the step is a call on the system
IsCall == calls' = calls + 1

Count(seq, P(_)) == Cardinality({i \in 1..Len(seq) : P(seq[i])})

----------------------------------------------------------------------------
(* Properties *)

IsGranted(r) == r.access_decision = "granted"

\* a decision logged for an expired entry
TimedOut(r) == Has(r, "reason") /\ r.reason = "Verification timeout"

\* C1: a valid vehicle observation stored by process_vehicle_detection and, at most
\* ACCESS_TIME_WINDOW seconds later with no call in between, a valid identity
\* observation given to process_id_card_detection: the call returns, the pending
\* vehicle entry is the one matched, and exactly one decision is logged for the
\* pair, with access_decision 'granted', in either mode.
C1_VehicleThenIdCardGranted ==
    [][(/\ IsCall
        /\ last.op = "process_vehicle_detection"
        /\ last.outcome = "stored"
        /\ last'.op = "process_id_card_detection"
        /\ last'.arg \in ValidIdCards
        /\ now' - last.at <= ACCESS_TIME_WINDOW)
       => (/\ last'.outcome = "matched"
           /\ ~last'.raised
           /\ last'.pending.vehicle = last.arg
           /\ Count(NewRecords, IsGranted) = 1
           /\ \A i \in 1..Len(NewRecords) :
                IsGranted(NewRecords[i]) =>
                    /\ NewRecords[i].vehicle = last.arg
                    /\ NewRecords[i].id_card = last'.arg)]_vars

\* C2: no call of process_vehicle_detection or process_id_card_detection raises
\* an exception, whatever the sequence of observations and times.
C2_NeverRaises == last.op \in ProcessOps => ~last.raised

\* C3: a decision logged for a match references a vehicle observation and an
\* identity observation, both non-null, and the pending entry matched is of the
\* counterpart kind of the incoming observation.
C3_MatchReferencesBothSides ==
    (last.op \in ProcessOps /\ last.outcome = "matched") =>
        /\ last.result.vehicle # None
        /\ last.result.id_card # None
        /\ last.op = "process_vehicle_detection" =>
                (last.pending.vehicle = None /\ last.pending.id_card # None)
        /\ last.op = "process_id_card_detection" =>
                (last.pending.id_card = None /\ last.pending.vehicle # None)

\* C4: pending_verifications holds at most one entry per plate_text and at most
\* one entry per moodle_id.
C4_OnePendingPerKey ==
    \A i, j \in 1..Len(pending_verifications) :
        LET a == pending_verifications[i].value
            b == pending_verifications[j].value
        IN  i # j =>
                /\ (a.vehicle # None /\ b.vehicle # None) =>
                        a.vehicle.plate_text # b.vehicle.plate_text
                /\ (a.id_card # None /\ b.id_card # None) =>
                        a.id_card.moodle_id # b.id_card.moodle_id

\* a second observation of a pending plate has arrived and has been matched with
\* the entry instead of being stored beside it, while another plate stays pending
C4_Witness ==
    /\ last.op = "process_vehicle_detection"
    /\ last.outcome = "matched"
    /\ last.pending.vehicle.plate_text = last.arg.plate_text
    /\ Len(pending_verifications) = 1
    /\ pending_verifications[1].value.vehicle.plate_text # last.arg.plate_text

\* C5: no entry is pending for longer than ACCESS_TIME_WINDOW seconds, whether
\* or not a further observation arrives.
C5_PendingWithinWindow ==
    \A i \in 1..Len(pending_verifications) :
        Age(pending_verifications[i].value, now) <= ACCESS_TIME_WINDOW

\* C6: the pending entry an observation is matched with is never older than
\* ACCESS_TIME_WINDOW seconds at the time of the match, for any age.
C6_NoMatchBeyondWindow ==
    (last.op \in ProcessOps /\ last.outcome = "matched") =>
        Age(last.pending, last.at) <= ACCESS_TIME_WINDOW

\* C7: right after a call with a valid observation has returned, no entry of
\* pending_verifications is older than ACCESS_TIME_WINDOW seconds.
C7_SweptAfterCall ==
    (/\ last.op \in ProcessOps
     /\ last.outcome \in {"matched", "stored"}
     /\ ~last.raised
     /\ last.at = now) =>
        \A i \in 1..Len(pending_verifications) :
            Age(pending_verifications[i].value, now) <= ACCESS_TIME_WINDOW

\* the pending entries a call has removed without returning them as the match
ExpiredBy(matched) ==
    {pending_verifications[i].value : i \in
        {k \in 1..Len(pending_verifications) :
            /\ pending_verifications[k].key \notin Keys(pending_verifications')
            /\ pending_verifications[k].value # matched}}

IsDecisionFor(pending, r) ==
    /\ r.timestamp = pending.timestamp
    /\ r.vehicle = pending.vehicle
    /\ r.id_card = pending.id_card
    /\ ~Has(r, "match_status")

C9_OneDecisionPerRemoval ==
    [][Len(access_log') - Len(access_log) =
        Cardinality(Keys(pending_verifications) \ Keys(pending_verifications'))]_vars

\* a call has both expired one entry and matched another
C9_Witness ==
    /\ last.op \in ProcessOps
    /\ last.outcome = "matched"
    /\ Len(access_log) = 2
    /\ ~Has(access_log[1], "match_status")
    /\ Has(access_log[2], "match_status")
    /\ pending_verifications = <<>>

\* C10: in both-required mode match_vehicle_and_id grants iff both arguments are
\* present with is_valid true, and otherwise denies with the reason that both
\* are required.
C10_BothRequiredPolicy ==
    (last.op = "match_vehicle_and_id" /\ REQUIRE_BOTH_VERIFICATIONS) =>
        LET both == /\ PresentAndValid(last.arg.vehicle_data)
                    /\ PresentAndValid(last.arg.id_card_data)
            r == last.result
        IN  /\ r.access_decision = "granted" <=> both
            /\ ~both =>
                /\ r.access_decision = "denied"
                /\ Has(r, "reason")
                /\ r.reason = "Both vehicle and ID card required"

\* both-required mode has denied a pair with one side missing
C10_Witness ==
    /\ last.op = "match_vehicle_and_id"
    /\ REQUIRE_BOTH_VERIFICATIONS
    /\ last.arg.vehicle_data \in ValidVehicles
    /\ last.arg.id_card_data = None
    /\ last.result.access_decision = "denied"

\* C11: in either-sufficient mode match_vehicle_and_id grants iff at least one
\* argument is present with is_valid true, and denies only when neither is.
C11_EitherSufficientPolicy ==
    (last.op = "match_vehicle_and_id" /\ ~REQUIRE_BOTH_VERIFICATIONS) =>
        LET either == \/ PresentAndValid(last.arg.vehicle_data)
                      \/ PresentAndValid(last.arg.id_card_data)
            r == last.result
        IN  /\ r.access_decision = "granted" <=> either
            /\ r.access_decision = "denied" <=> ~either

\* either-sufficient mode has granted a pair whose vehicle side is missing
C11_Witness ==
    /\ last.op = "match_vehicle_and_id"
    /\ ~REQUIRE_BOTH_VERIFICATIONS
    /\ last.arg.vehicle_data = None
    /\ last.arg.id_card_data \in ValidIdCards
    /\ last.result.access_decision = "granted"

\* the fields of the system a call can change
SystemState == <<pending_verifications, access_log, log_file, alert_file, stats>>

\* C12: a sweep that follows a sweep at the same clock value, with no call in
\* between, logs no decision and changes no state.
C12_SecondSweepChangesNothing ==
    [][(/\ IsCall
        /\ last.op = "check_pending_verification"
        /\ last.at = now
        /\ last'.op = "check_pending_verification")
       => (/\ access_log' = access_log
           /\ UNCHANGED SystemState
           /\ ~last'.raised)]_vars

\* a sweep that has expired an entry has been followed by a second sweep at the
\* same clock value
C12_Witness ==
    /\ last.op = "check_pending_verification"
    /\ last.arg.after = "check_pending_verification"
    /\ last.arg.after_at = last.at
    /\ Len(access_log) = 1
    /\ TimedOut(access_log[1])

\* C13: a call of process_vehicle_detection or process_id_card_detection with a
\* null observation, or one whose is_valid is false or missing, changes nothing
\* and logs nothing.
C13_InvalidObservationIgnored ==
    [][(/\ IsCall
        /\ last'.op \in ProcessOps
        /\ ~PresentAndValid(last'.arg))
       => (/\ UNCHANGED SystemState
           /\ ~last'.raised)]_vars

\* an observation without is_valid has been handed over while an entry was
\* pending, and the entry is still there
C13_Witness ==
    /\ last.op = "process_vehicle_detection"
    /\ last.arg # None
    /\ ~Has(last.arg, "is_valid")
    /\ last.outcome = "ignored"
    /\ Len(pending_verifications) = 1
    /\ access_log = <<>>

\* C14: once the run has ended and the session report is written, no entry is
\* left in pending_verifications (each has been logged as expired and denied).
C14_ReportFlushesPending ==
    session_report # None => pending_verifications = <<>>

IsDenied(r) == r.access_decision = "denied"

\* C15: the alerts are, in order, exactly the denied records of access_log when
\* SEND_ALERTS is true, and there is none when it is false.
C15_AlertIffDenied ==
    LET denied == SelectSeq(access_log, IsDenied)
    IN  IF SEND_ALERTS
        THEN /\ Len(alert_file) = Len(denied)
             /\ \A i \in 1..Len(denied) :
                    /\ alert_file[i].timestamp = denied[i].timestamp
                    /\ alert_file[i].vehicle = denied[i].vehicle
                    /\ alert_file[i].id_card = denied[i].id_card
        ELSE alert_file = <<>>

\* with alerts enabled, an expired decision has been alerted and a granted one has not
C15_Witness ==
    /\ SEND_ALERTS
    /\ Len(access_log) = 2
    /\ TimedOut(access_log[1])
    /\ access_log[2].access_decision = "granted"
    /\ Len(alert_file) = 1

\* C16: a call that removes a pending entry while the log file cannot be written
\* raises to its caller; the entry stays removed, its record stays in access_log,
\* and nothing reaches the files.
C16_WriteFailureNotRolledBack ==
    [][(/\ IsCall
        /\ ~disk_ok
        /\ \/ Keys(pending_verifications) \ Keys(pending_verifications') # {}
           \/ access_log' # access_log)
       => (/\ last'.raised
           /\ Cardinality(Keys(pending_verifications) \ Keys(pending_verifications')) = 1
           /\ Keys(pending_verifications') \subseteq Keys(pending_verifications)
           /\ Len(access_log') = Len(access_log) + 1
           /\ SubSeq(access_log', 1, Len(access_log)) = access_log
           /\ \E i \in 1..Len(pending_verifications) :
                /\ pending_verifications[i].key \notin Keys(pending_verifications')
                /\ access_log'[Len(access_log')].vehicle = pending_verifications[i].value.vehicle
           /\ log_file' = log_file
           /\ alert_file' = alert_file)]_vars

\* the write of an expired entry's decision has failed: the call raised, the entry
\* is gone and the record is in access_log but not in the file
C16_Witness ==
    /\ ~disk_ok
    /\ last.raised
    /\ pending_verifications = <<>>
    /\ Len(access_log) = 1
    /\ TimedOut(access_log[1])
    /\ log_file = <<>>

\* C17: every step leaves the records already in access_log in place and in order.
C17_AccessLogAppendOnly ==
    [][/\ Len(access_log) <= Len(access_log')
       /\ SubSeq(access_log', 1, Len(access_log)) = access_log]_vars

\* a second decision has been logged after a first one
C17_Witness ==
    /\ Len(access_log) = 2
    /\ TimedOut(access_log[1])
    /\ Has(access_log[2], "match_status")

\* C18: every pending entry holds exactly one observation, of the kind its key names.
C18_PendingEntriesOneSided ==
    \A i \in 1..Len(pending_verifications) :
        LET k == pending_verifications[i].key
            e == pending_verifications[i].value
        IN  /\ (e.vehicle # None) # (e.id_card # None)
            /\ k[1] = "vehicle" => (e.vehicle # None /\ e.vehicle.plate_text = k[2])
            /\ k[1] = "id_card" => (e.id_card # None /\ e.id_card.moodle_id = k[2])

\* two observations are pending, each in an entry of its own
C18_Witness ==
    /\ Len(pending_verifications) = 2
    /\ pending_verifications[1].value.id_card # None
    /\ pending_verifications[2].value.id_card # None
    /\ pending_verifications[1].value.vehicle = None

\* the positions of the unexpired pending entries of the counterpart kind of the
\* observation a call of op at time t brings
Compatible(op, t) ==
    {i \in 1..Len(pending_verifications) :
        LET e == pending_verifications[i].value
        IN  /\ Age(e, t) <= ACCESS_TIME_WINDOW
            /\ IF op = "process_vehicle_detection"
               THEN e.id_card # None
               ELSE e.vehicle # None}

\* C19: a valid observation that finds several unexpired pending entries of the
\* counterpart kind is matched with the one created earliest; that entry is
\* removed and the others stay pending.
C19_EarliestCompatibleMatched ==
    [][(/\ IsCall
        /\ last'.op \in ProcessOps
        /\ PresentAndValid(last'.arg)
        /\ Cardinality(Compatible(last'.op, now')) >= 2)
       => LET c == Compatible(last'.op, now')
              first == CHOOSE i \in c : \A j \in c :
                          /\ pending_verifications[i].value.timestamp
                                <= pending_verifications[j].value.timestamp
                          /\ pending_verifications[i].value.timestamp
                                = pending_verifications[j].value.timestamp => i <= j
          IN  /\ last'.outcome = "matched"
              /\ last'.pending = pending_verifications[first].value
              /\ pending_verifications[first].key \notin Keys(pending_verifications')
              /\ \A j \in c \ {first} :
                    pending_verifications[j].key \in Keys(pending_verifications')]_vars

\* the valid name candidates of the highest OCR confidence, in OCR order
BestNames(ocr_results) ==
    LET v == ValidNames(ocr_results)
    IN  SelectSeq(v, LAMBDA f : \A j \in 1..Len(v) : v[j].confidence <= f.confidence)

\* C20 as stated: the name selected is a valid candidate of the highest
\* confidence and, among those, one of the longest, whatever the OCR order.
C20_HighestConfidenceThenLongest ==
    (last.op = "process_single_image" /\ ValidNames(last.arg) # <<>>) =>
        LET best == BestNames(last.arg)
        IN  /\ \E i \in 1..Len(best) : best[i].text = last.result.name
            /\ \A i \in 1..Len(best) : Len(best[i].text.str) <= Len(last.result.name.str)

\* C20 as amended: the name selected is the valid candidate of the highest
\* confidence that comes first in the OCR results.
C20_HighestConfidenceThenFirst ==
    (last.op = "process_single_image" /\ ValidNames(last.arg) # <<>>) =>
        /\ last.result.name = BestNames(last.arg)[1].text
        /\ \E i \in 1..Len(last.result.confidence_scores) :
              /\ last.result.confidence_scores[i].key = "name"
              /\ last.result.confidence_scores[i].value = BestNames(last.arg)[1].confidence

\* two valid names tie on the highest confidence, the longer one comes second,
\* and a less confident valid name comes before both
C20_Witness ==
    /\ last.op = "process_single_image"
    /\ Len(ValidNames(last.arg)) = 3
    /\ Len(BestNames(last.arg)) = 2
    /\ ValidNames(last.arg)[1].confidence < BestNames(last.arg)[1].confidence
    /\ Len(BestNames(last.arg)[1].text.str) < Len(BestNames(last.arg)[2].text.str)
    /\ last.result.name = BestNames(last.arg)[1].text

\* C27: stats['access_denied'] is the number of records of access_log whose
\* access_decision is 'denied', timeout denials included.
C27_DeniedCountMatchesLog ==
    stats.access_denied = Count(access_log, IsDenied)

\* C28: a call that announces ACCESS GRANTED has just logged a decision for its
\* match whose access_decision is 'granted'.
C28_AnnouncedOnlyIfGranted ==
    (last.op \in ProcessOps /\ last.announced) =>
        /\ last.outcome = "matched"
        /\ IsGranted(last.result)
        /\ access_log # <<>>
        /\ access_log[Len(access_log)] = last.result

\* a call has announced ACCESS GRANTED
C28_Announced == last.op \in ProcessOps /\ last.announced

\* a call matched a pending entry, logged a denied decision for it and went on
\* to the ACCESS GRANTED line
C28_DeniedMatchAtAnnounceLine ==
    /\ last.op \in ProcessOps
    /\ last.outcome = "matched"
    /\ IsDenied(last.result)

\* the text parse_id_card_data has searched
ParsedText == last.result.raw_text.str

\* the eight characters of the parsed text from position i on, as a str
EightFrom(i) == Str(SubSeq(ParsedText, i, i + 7))

Least(S) == CHOOSE i \in S : \A j \in S : i <= j

\* C21 as stated: the moodle_id is the first 8-digit substring of the text that
\* starts with '2' when there is one, else the first 8-digit substring, else null.
C21_FirstFrom2ElseFirstEight ==
    last.op = "parse_id_card_data" =>
        LET eight == {i \in 1..Len(ParsedText) : EightDigitsAt(ParsedText, i)}
            from2 == {i \in eight : ParsedText[i] = "2"}
        IN  IF from2 # {} THEN last.result.moodle_id = EightFrom(Least(from2))
            ELSE IF eight # {} THEN last.result.moodle_id = EightFrom(Least(eight))
            ELSE last.result.moodle_id = None

\* position k holds eight digits that follow the label at position i: the letters
\* ID (with NO after optional blanks when withNo), then only colons and blanks
Labelled(i, k, withNo) ==
    LET text == ParsedText
        Blank(a, b) == \A m \in a..b : text[m] = " "
        ColonOrBlank(a, b) == \A m \in a..b : text[m] \in {":", " "}
    IN  /\ i + 1 <= Len(text)
        /\ text[i] \in {"I", "i"} /\ text[i + 1] \in {"D", "d"}
        /\ EightDigitsAt(text, k)
        /\ IF withNo
           THEN \E j \in (i + 2)..(k - 2) :
                    /\ Blank(i + 2, j - 1)
                    /\ text[j] \in {"N", "n"} /\ text[j + 1] \in {"O", "o"}
                    /\ ColonOrBlank(j + 2, k - 1)
           ELSE k >= i + 2 /\ ColonOrBlank(i + 2, k - 1)

\* the digits after the leftmost label
LabelledDigits(withNo) ==
    LET n == Len(ParsedText)
        labels == {i \in 1..n : \E k \in 1..n : Labelled(i, k, withNo)}
    IN  {k \in 1..n : labels # {} /\ Labelled(Least(labels), k, withNo)}

\* the numbers of exactly eight digits that stand on their own in the text: no
\* letter, digit or underscore next to them
Standalone ==
    {i \in 1..Len(ParsedText) :
        /\ EightDigitsAt(ParsedText, i)
        /\ (i = 1 \/ ParsedText[i - 1] \notin WordChars)
        /\ (i + 8 > Len(ParsedText) \/ ParsedText[i + 8] \notin WordChars)}

\* C21 as amended: the moodle_id is the eight digits after the first 'ID NO'
\* label, else those after the first 'ID' label, else the first number of eight
\* digits standing on its own that starts with '2', else the first number of
\* eight digits standing on its own, else null.
C21_LabelThenFrom2ThenAnyNumber ==
    last.op = "parse_id_card_data" =>
        LET from2 == {i \in Standalone : ParsedText[i] = "2"}
        IN  IF LabelledDigits(TRUE) # {}
            THEN \A k \in LabelledDigits(TRUE) : last.result.moodle_id = EightFrom(k)
            ELSE IF LabelledDigits(FALSE) # {}
            THEN \A k \in LabelledDigits(FALSE) : last.result.moodle_id = EightFrom(k)
            ELSE IF from2 # {} THEN last.result.moodle_id = EightFrom(Least(from2))
            ELSE IF Standalone # {} THEN last.result.moodle_id = EightFrom(Least(Standalone))
            ELSE last.result.moodle_id = None

\* a number of eight digits from '2' stands first in the text, an 'ID' label with
\* other digits comes after it, and the digits after the label are returned
C21_Witness ==
    /\ last.op = "parse_id_card_data"
    /\ 1 \in Standalone
    /\ ParsedText[1] = "2"
    /\ LabelledDigits(TRUE) = {}
    /\ LabelledDigits(FALSE) # {}
    /\ last.result.moodle_id # None
    /\ last.result.moodle_id # EightFrom(1)
    /\ last.result.moodle_id.str[1] # "2"

\* C22: the cleaned text of a plate reading has the state code and the series
\* letters as they were read (in upper case) and the corrections of
\* PLATE_CHAR_CORRECTIONS applied in the district number and in the number.
C22_CorrectionsOnlyInNumericSections ==
    last.op = "clean_plate_text" =>
        LET p == last.arg
            out == SelectSeq(last.result.str, LAMBDA c : c # "-")
            n == Len(p.series)
        IN  /\ SubSeq(out, 1, 2) = Upper(p.state)
            /\ SubSeq(out, 3, 4) = ApplyCorrections(p.district, 1)
            /\ SubSeq(out, 5, 4 + n) = p.series
            /\ SubSeq(out, 5 + n, Len(out)) = ApplyCorrections(p.number, 1)

\* C23: a call of save_card_data less than ID_CARD_SAVE_COOLDOWN seconds after
\* the previous performed save changes neither last_save_time nor the files
\* saved; any other call saves one card at the current time; and any two saves
\* performed are at least ID_CARD_SAVE_COOLDOWN seconds apart.
C23_SavesRespectCooldown ==
    [][(now' = now /\ last'.op = "save_card_data")
       => /\ IF saved_cards # <<>>
                 /\ now - saved_cards[Len(saved_cards)].timestamp < ID_CARD_SAVE_COOLDOWN
             THEN UNCHANGED <<last_save_time, saved_cards>>
             ELSE /\ Len(saved_cards') = Len(saved_cards) + 1
                  /\ SubSeq(saved_cards', 1, Len(saved_cards)) = saved_cards
                  /\ saved_cards'[Len(saved_cards')].timestamp = now
                  /\ last_save_time' = [at |-> now]
          /\ \A i, j \in 1..Len(saved_cards') :
                i < j => saved_cards'[j].timestamp - saved_cards'[i].timestamp
                            >= ID_CARD_SAVE_COOLDOWN]_vars

\* two saves exactly ID_CARD_SAVE_COOLDOWN seconds apart, and a call after the
\* second one that fell inside the cooldown
C23_Witness ==
    /\ last.op = "save_card_data"
    /\ last.outcome = "skipped"
    /\ Len(saved_cards) = 2
    /\ saved_cards[2].timestamp - saved_cards[1].timestamp = ID_CARD_SAVE_COOLDOWN
    /\ last.at > saved_cards[2].timestamp

\* the interval records of json_data that hold the label for the interval
RecordsOf(a) ==
    {i \in 1..Len(json_data) :
        /\ json_data[i].StartTime = a.interval
        /\ a.label \in json_data[i].LicensePlates}

\* the rows of the table that hold the label for the interval
RowsOf(a) ==
    {i \in 1..Len(db_rows) :
        /\ db_rows[i].start_time = a.interval
        /\ db_rows[i].license_plate = a.label}

\* C24: when process_video has returned, every label added to license_plates is
\* in exactly one interval record of the JSON data and in exactly one row of
\* the table, within the interval it was added in, and in no other interval.
C24_EveryPlatePersistedOnce ==
    video_pc = "done" =>
        /\ \A a \in plates_added :
            /\ Cardinality(RecordsOf(a)) = 1
            /\ Cardinality(RowsOf(a)) = 1
        /\ \A i \in 1..Len(json_data) : \A label \in json_data[i].LicensePlates :
            [label |-> label, interval |-> json_data[i].StartTime] \in plates_added
        /\ \A i \in 1..Len(db_rows) :
            [label |-> db_rows[i].license_plate, interval |-> db_rows[i].start_time]
                \in plates_added

\* process_video has returned after a 20-second flush with one plate and a later
\* frame with another plate, saved by the flush after the loop
C24_Witness ==
    /\ video_pc = "done"
    /\ Len(json_data) = 2
    /\ json_data[1].LicensePlates # {}
    /\ json_data[2].LicensePlates # {}
    /\ json_data[2].LicensePlates = license_plates
    /\ json_data[1].LicensePlates # json_data[2].LicensePlates
    /\ Len(db_rows) = 2

\* C26: when the capture loop of main.py has ended, every label added to
\* license_plates, those added since the last 20-second flush included, is in an
\* interval record of the JSON data and in a row of the table.
C26_NoPlateLostAtEnd ==
    video_pc = "done" =>
        \A a \in plates_added :
            /\ \E i \in 1..Len(json_data) :
                /\ json_data[i].StartTime = a.interval
                /\ a.label \in json_data[i].LicensePlate
            /\ RowsOf(a) # {}

\* C25: the table holds at most one student per moodle_id after every call, and
\* a create_student for a moodle_id that is in the table is answered 400
\* 'Student already exists' and leaves the table as it was.
C25_OneStudentPerMoodleId ==
    [][/\ \A i, j \in 1..Len(students') :
            students'[i].moodle_id = students'[j].moodle_id => i = j
       /\ (/\ last'.op = "create_student"
           /\ calls' = calls + 1
           /\ \E i \in 1..Len(students) : students[i].moodle_id = last'.arg.moodle_id)
          => (/\ last'.result.status_code = 400
              /\ last'.result.detail = "Student already exists"
              /\ students' = students)]_vars

\* a create_student for a moodle_id already in the table, under another email,
\* has been refused, with another student in the table as well
C25_Witness ==
    /\ last.op = "create_student"
    /\ last.result.status_code = 400
    /\ Len(students) = 2
    /\ \E i \in 1..Len(students) :
        /\ students[i].moodle_id = last.arg.moodle_id
        /\ students[i].email # last.arg.email

\* C29: two create_student requests for the same moodle_id whose queries both
\* ran before either commit end with exactly one student of that moodle_id, one
\* request answered 200 and the other 400 'Student already exists'.
C29_RaceLoserGets400 ==
    \A r1, r2 \in 1..Len(requests) :
        (/\ r1 # r2
         /\ requests[r1].args.moodle_id = requests[r2].args.moodle_id
         /\ requests[r1].existing = None
         /\ requests[r2].existing = None
         /\ requests[r1].pc = "done"
         /\ requests[r2].pc = "done"
         /\ requests[r1].response.status_code = 200)
        => /\ Cardinality({i \in 1..Len(students) :
                    students[i].moodle_id = requests[r1].args.moodle_id}) = 1
           /\ requests[r2].response = AlreadyExists

====
